---- MODULE Spec2Model ----
(***************************************************************************)
(* Lirconian: the reply parser (reply_parser.py) and the command session   *)
(* (lirc_client.py, AbstractLircClient) of the LIRC client.                *)
(*                                                                         *)
(* Text.  A Python str / bytes value is a sequence of symbols.  The        *)
(* protocol keywords, the names and the digits are single symbols; " " is  *)
(* the whitespace symbol and "\n" the newline byte.  None is <<>> and a    *)
(* present optional value x is <<x>>.                                      *)
(***************************************************************************)
EXTENDS Integers, Sequences, FiniteSets, TLC

VARIABLES
    \* --- a ReplyParser driven directly through feed (SpecFeed) ---
    rp,          \* the ReplyParser object
    input,       \* the lines that are going to be fed to it
    pos,         \* number of lines of input fed so far
    fed_line,    \* the argument of the last feed call (None before the first)
    rp_before,   \* the parser as it was before the last feed call
    feed_exc,    \* the exception the last feed call raised (NoExc if none)
    injected,    \* number of lines fed that were not taken from input
    \* --- a command session, AbstractLircClient (Spec) ---
    parser,      \* self._parser
    in_buffer,   \* self._in_buffer
    timeout,     \* the timeout of self._socket (None: blocking)
    sock_in,     \* bytes the server has sent and recv has not returned yet
    sock_out,    \* the packets written with self._socket.send that the server
                 \* has not taken yet, in order
    pc,          \* "idle": no call in progress; "loop": in _send_command
    outcome,     \* how the last call ended (kind "none" while it runs)
    \* --- the server and the bookkeeping of the claims ---
    peer_closed,    \* the server has closed the connection
    reply,          \* the reply the server gave to the last command (or None)
    unconsumed,     \* per written command, oldest first: lines of its reply
                    \* that _read_line has not returned yet
    call_fed,       \* lines the current call has passed to feed
    zero_recvs,     \* recv calls of the current call that returned no bytes
    prev_kind,      \* outcome.kind of the call before the last one
    well_served,    \* so far every command got a well-formed reply, in time
    calls,          \* number of _send_command calls so far
    \* --- the operations of AbstractLircClient, each run to its end (SpecApi) ---
    last_remote,    \* self._last_remote
    last_command,   \* self._last_command
    socket,         \* self._socket: "connected" or "closed"
    api,            \* the last operation called: its name and arguments,
                    \* whether close had been called before it, and whether
                    \* the session was as new when it was called
    sent,           \* the packets the last operation wrote to the socket
    ret,            \* how the last operation ended: what it returned or raised
    raised,         \* the exception feed raised in the last operation, if any
    answer,         \* the server's answer to the last operation (or None)
    last_start,     \* the arguments of the last send_ir_command_repeat call
    start_kind,     \* how that call ended (ret.kind)
    verbose,        \* self._verbose
    stdout,         \* what the last operation printed
    fed,            \* the lines the last operation passed to feed, in order
    twin,           \* the same operation run from the same state by a session
                    \* that differs in one respect (None if there is none)
    ops,            \* number of operations called so far
    \* --- _read_line on its own (SpecRead) ---
    received,       \* all the bytes recv has returned, in order
    returned        \* the lines _read_line has returned, in order

feed_vars == <<rp, input, pos, fed_line, rp_before, feed_exc, injected>>

session_vars ==
    <<parser, in_buffer, timeout, sock_in, sock_out, pc, outcome,
      peer_closed, reply, unconsumed, call_fed, zero_recvs, prev_kind,
      well_served, calls>>

api_vars ==
    <<last_remote, last_command, socket, api, sent, ret, raised, answer,
      last_start, start_kind, verbose, stdout, fed, twin, ops>>

read_vars == <<received, returned>>

vars == <<feed_vars, session_vars, api_vars, read_vars>>

----------------------------------------------------------------------------
(* Bounds of the model *)

\* longest DATA block a server reply carries
MaxDataLines == 2
\* most SIGHUP frames put in front of a reply
MaxSighup == 1
\* most lines fed to a parser out of the order of its input
MaxInject == 1
\* most _send_command calls on one session
MaxCalls == 2
\* most recv calls of one call that return no bytes
MaxZeroRecvs == 2
\* most operations called on one session
MaxOps == 3
\* most bytes a server sends to a line reader
MaxStream == 4
\* highest transmitter number passed to set_transmitters
MaxTransmitter == 3

----------------------------------------------------------------------------
(* Text *)

None == <<>>
Some(x) == <<x>>

newline == "\n"
Whitespace == {" "}
Digits == {"0", "1", "2", "3", "4", "5", "6", "7", "8", "9"}

DigitValue(d) ==
    CASE d = "0" -> 0 [] d = "1" -> 1 [] d = "2" -> 2 [] d = "3" -> 3
      [] d = "4" -> 4 [] d = "5" -> 5 [] d = "6" -> 6 [] d = "7" -> 7
      [] d = "8" -> 8 [] d = "9" -> 9

DigitOf(n) ==
    CASE n = 0 -> "0" [] n = 1 -> "1" [] n = 2 -> "2" [] n = 3 -> "3"
      [] n = 4 -> "4" [] n = 5 -> "5" [] n = 6 -> "6" [] n = 7 -> "7"
      [] n = 8 -> "8" [] n = 9 -> "9"

RECURSIVE lstrip(_)
lstrip(s) ==
    IF s # <<>> /\ Head(s) \in Whitespace THEN lstrip(Tail(s)) ELSE s

RECURSIVE rstrip(_)
rstrip(s) ==
    IF s # <<>> /\ s[Len(s)] \in Whitespace
    THEN rstrip(SubSeq(s, 1, Len(s) - 1))
    ELSE s

\* str.strip(): leading and trailing whitespace removed
strip(s) == rstrip(lstrip(s))

\* the decimal value of a non-empty sequence of digits
RECURSIVE DecimalValue(_)
DecimalValue(s) ==
    IF Len(s) = 1
    THEN DigitValue(s[1])
    ELSE 10 * DecimalValue(SubSeq(s, 1, Len(s) - 1)) + DigitValue(s[Len(s)])

AllDigits(s) == s # <<>> /\ \A i \in 1..Len(s) : s[i] \in Digits

\* int(s) raises ValueError unless s is an optional sign followed by digits
IntParses(s) ==
    \/ AllDigits(s)
    \/ Len(s) >= 2 /\ s[1] \in {"-", "+"} /\ AllDigits(Tail(s))

int(s) ==
    IF s[1] = "-" THEN 0 - DecimalValue(Tail(s))
    ELSE IF s[1] = "+" THEN DecimalValue(Tail(s))
    ELSE DecimalValue(s)

\* str(n) for an integer n
RECURSIVE StrNat(_)
StrNat(n) ==
    IF n < 10 THEN <<DigitOf(n)>> ELSE Append(StrNat(n \div 10), DigitOf(n % 10))

str(n) == IF n < 0 THEN <<"-">> \o StrNat(0 - n) ELSE StrNat(n)

\* ''.join(lines)
RECURSIVE join(_)
join(lines) ==
    IF lines = <<>> THEN <<>> ELSE Head(lines) \o join(Tail(lines))

----------------------------------------------------------------------------
(* reply_parser.py *)

NoExc == [type |-> "none", line |-> <<>>, state |-> "none"]

\* ReplyParser.__init__ (the unused _buffer is left out)
ReplyParser ==
    [ result         |-> "INCOMPLETE",
      success        |-> None,
      data           |-> <<>>,
      last_line      |-> <<>>,
      sighup         |-> FALSE,
      state          |-> "BEGIN",
      lines_expected |-> None ]

is_completed(p) == p.result # "INCOMPLETE"

\* what a handler hands back: the parser and the exception it raised
Ok(p) == [parser |-> p, exc |-> NoExc]

\* _bad_packet_exception putting the parser back to its first state
_bad_packet_exception_ResetsState(p, line) ==
    [ parser |-> [p EXCEPT !.state = "BEGIN"],
      exc    |-> [type |-> "BadPacketException", line |-> line, state |-> p.state] ]

_bad_packet_exception(p, line) ==
    [ parser |-> p,
      exc    |-> [type |-> "BadPacketException", line |-> line, state |-> p.state] ]

\* _begin raising on a line other than BEGIN
_begin_RaisesOnOther(p, line) ==
    IF line = <<"BEGIN">>
    THEN Ok([p EXCEPT !.state = "COMMAND"])
    ELSE _bad_packet_exception(p, line)

_begin(p, line) ==
    IF line = <<"BEGIN">> THEN Ok([p EXCEPT !.state = "COMMAND"]) ELSE Ok(p)

_command(p, line) ==
    IF line = <<>>
    THEN _bad_packet_exception(p, line)
    ELSE Ok([p EXCEPT !.state = "RESULT"])

\* _result leaving success as it is
_result_SuccessUnset(p, line) ==
    IF line \in {<<"SUCCESS">>, <<"ERROR">>}
    THEN Ok([p EXCEPT !.state = "DATA"])
    ELSE IF line = <<"SIGHUP">>
    THEN Ok([p EXCEPT !.state = "SIGHUP_END", !.sighup = TRUE])
    ELSE _bad_packet_exception(p, line)

_result(p, line) ==
    IF line \in {<<"SUCCESS">>, <<"ERROR">>}
    THEN Ok([p EXCEPT !.success = Some(line = <<"SUCCESS">>), !.state = "DATA"])
    ELSE IF line = <<"SIGHUP">>
    THEN Ok([p EXCEPT !.state = "SIGHUP_END", !.sighup = TRUE])
    ELSE _bad_packet_exception(p, line)

_data(p, line) ==
    IF line = <<"END">> THEN Ok([p EXCEPT !.state = "DONE"])
    ELSE IF line = <<"DATA">> THEN Ok([p EXCEPT !.state = "LINE_COUNT"])
    ELSE _bad_packet_exception(p, line)

\* _line_count without the case of a count of zero
_line_count_NoZeroCase(p, line) ==
    IF ~IntParses(line)
    THEN _bad_packet_exception(p, line)
    ELSE Ok([p EXCEPT !.lines_expected = Some(int(line)), !.state = "LINES"])

_line_count(p, line) ==
    IF ~IntParses(line)
    THEN _bad_packet_exception(p, line)
    ELSE Ok([p EXCEPT !.lines_expected = Some(int(line)),
                      !.state = IF int(line) = 0 THEN "END" ELSE "LINES"])

\* _lines that wants one line more than the count
_lines_OneTooMany(p, line) ==
    LET q == [p EXCEPT !.data = Append(p.data, line)]
    IN  IF Len(q.data) > q.lines_expected[1]
        THEN Ok([q EXCEPT !.state = "END"])
        ELSE Ok(q)

_lines(p, line) ==
    LET q == [p EXCEPT !.data = Append(p.data, line)]
    IN  IF Len(q.data) >= q.lines_expected[1]
        THEN Ok([q EXCEPT !.state = "END"])
        ELSE Ok(q)

\* _end taking any line for END
_end_AnyLine(p, line) == Ok([p EXCEPT !.state = "DONE"])

_end(p, line) ==
    IF line # <<"END">>
    THEN _bad_packet_exception(p, line)
    ELSE Ok([p EXCEPT !.state = "DONE"])

\* _sighup_end ending the reply
_sighup_end_ToDone(p, line) ==
    IF line = <<"END">>
    THEN Ok([p EXCEPT !.state = "DONE"])
    ELSE _bad_packet_exception(p, line)

_sighup_end(p, line) ==
    IF line = <<"END">>
    THEN Ok([p EXCEPT !.state = "BEGIN"])
    ELSE _bad_packet_exception(p, line)

\* the states the dictionary fsm of feed has a handler for
FsmKeys ==
    {"BEGIN", "COMMAND", "RESULT", "DATA", "LINE_COUNT", "LINES", "END",
     "SIGHUP_END"}

fsm(p, line) ==
    CASE p.state = "BEGIN"      -> _begin(p, line)
      [] p.state = "COMMAND"    -> _command(p, line)
      [] p.state = "RESULT"     -> _result(p, line)
      [] p.state = "DATA"       -> _data(p, line)
      [] p.state = "LINE_COUNT" -> _line_count(p, line)
      [] p.state = "LINES"      -> _lines(p, line)
      [] p.state = "END"        -> _end(p, line)
      [] p.state = "SIGHUP_END" -> _sighup_end(p, line)

\* feed handing a line of whitespace to the handlers as it does any other
feed_BlankNotSkipped(p, line) ==
    LET q == [p EXCEPT !.last_line = strip(line)]
    IN  IF q.state \notin FsmKeys
        THEN [ parser |-> q,
               exc    |-> [type |-> "KeyError", line |-> strip(line),
                           state |-> q.state] ]
        ELSE fsm(q, strip(line))

\* ReplyParser.feed: the parser after the call and the exception raised
feed(p, line) ==
    LET l == strip(line)
    IN  IF l = <<>>
        THEN Ok(p)
        ELSE LET q == [p EXCEPT !.last_line = l]
             IN  IF q.state \notin FsmKeys
                 THEN [ parser |-> q,
                        exc    |-> [type |-> "KeyError", line |-> l,
                                    state |-> q.state] ]
                 ELSE LET r == fsm(q, l)
                      IN  IF r.exc # NoExc
                          THEN r
                          ELSE IF r.parser.state = "DONE"
                          THEN Ok([r.parser EXCEPT !.result = "OK"])
                          ELSE r

----------------------------------------------------------------------------
(* Server replies, as sequences of lines (spec.md section 6) *)

BEGIN == <<"BEGIN">>
END == <<"END">>
SUCCESS == <<"SUCCESS">>
ERROR == <<"ERROR">>
DATA == <<"DATA">>
SIGHUP == <<"SIGHUP">>

\* the command lines of the model
Commands == {<<"LIST">>}

\* lines a server may put in a DATA block: plain, padded, whitespace only
PlainLines == {<<"stereo">>}
PaddedLines == {<<" ", "tv">>}
BlankLines == {<<" ">>}
DataLines == PlainLines \cup PaddedLines \cup BlankLines

SeqsUpTo(S, n) == UNION {[1..k -> S] : k \in 0..n}

\* the DATA block of d: DATA, the count, the lines (None: no block)
DataBlock(d) == IF d = None THEN <<>> ELSE <<DATA, str(Len(d[1]))>> \o d[1]

\* a reply frame; the data block is followed by the END of the frame, and
\* with blockEnd by an END of its own before it
Reply(cmd, ok, d, blockEnd) ==
    <<BEGIN, cmd, IF ok THEN SUCCESS ELSE ERROR>>
        \o DataBlock(d)
        \o (IF d # None /\ blockEnd THEN <<END>> ELSE <<>>)
        \o <<END>>

SighupFrame == <<BEGIN, SIGHUP, END>>

RECURSIVE SighupFrames(_)
SighupFrames(k) == IF k = 0 THEN <<>> ELSE SighupFrame \o SighupFrames(k - 1)

\* the shape of an input: k SIGHUP frames, then a reply
Shapes ==
    [ k : 0..MaxSighup, cmd : {<<"LIST">>}, ok : BOOLEAN,
      d : {None} \cup {Some(x) : x \in SeqsUpTo(DataLines, MaxDataLines)},
      blockEnd : BOOLEAN ]

LinesOf(sh) == SighupFrames(sh.k) \o Reply(sh.cmd, sh.ok, sh.d, sh.blockEnd)

\* lines fed out of order
OtherLines ==
    {BEGIN, END, SUCCESS, DATA, SIGHUP, <<"tv">>, <<" ">>, <<>>, <<"0">>,
     <<"-", "1">>, <<" ", "1", " ">>, <<"-">>}

----------------------------------------------------------------------------
(* lirc_client.py: AbstractLircClient and its socket *)

_READCHUNKLENGTH == 4096

Min(a, b) == IF a < b THEN a ELSE b

\* the bytes of lines on the wire: each line followed by a newline
RECURSIVE Wire(_)
Wire(lines) ==
    IF lines = <<>> THEN <<>> ELSE Head(lines) \o <<newline>> \o Wire(Tail(lines))

Contains(buf, b) == \E i \in 1..Len(buf) : buf[i] = b

\* bytes.find(b)
Find(buf, b) == CHOOSE i \in 1..Len(buf) : buf[i] = b /\ \A j \in 1..(i - 1) : buf[j] # b

\* the buffer split at its last newline
SplitLine_AtLastNewline(buf) ==
    LET n == CHOOSE i \in 1..Len(buf) :
                 buf[i] = newline /\ \A j \in (i + 1)..Len(buf) : buf[j] # newline
    IN  [ line |-> SubSeq(buf, 1, n - 1), rest |-> SubSeq(buf, n + 1, Len(buf)) ]

\* buf.split(newline, 1), for a buf that holds a newline
SplitLine(buf) ==
    [ line |-> SubSeq(buf, 1, Find(buf, newline) - 1),
      rest |-> SubSeq(buf, Find(buf, newline) + 1, Len(buf)) ]

\* what the server may answer to a command: a reply of section 6, or a
\* reply cut short by a line that the grammar does not allow there
BadLine == <<"FOO">>
ReplyData == {None, Some(<<(<<"tv">>)>>), Some(<<(<<"tv">>), (<<"stereo">>)>>)}
GoodAnswers(cmd) ==
    {[good |-> TRUE, ok |-> ok, d |-> d, lines |-> Reply(cmd, ok, d, FALSE)] :
        ok \in BOOLEAN, d \in ReplyData}
BadAnswers(cmd) ==
    {[good |-> FALSE, ok |-> TRUE, d |-> None, lines |-> l] :
        l \in {<<BEGIN, cmd, BadLine>>, <<BEGIN, cmd, SUCCESS, DATA, BadLine>>}}
Answers(cmd) == GoodAnswers(cmd) \cup BadAnswers(cmd)

NoOutcome == [kind |-> "none", value |-> <<>>]

\* a new ReplyParser that has not been fed
InitFeedVars ==
    /\ rp = ReplyParser
    /\ pos = 0
    /\ fed_line = None
    /\ rp_before = ReplyParser
    /\ feed_exc = NoExc
    /\ injected = 0

\* AbstractLircClient.__init__ and the socket before the first command
InitSessionVars ==
    /\ parser = ReplyParser
    /\ in_buffer = <<>>
    /\ sock_in = <<>>
    /\ sock_out = <<>>
    /\ pc = "idle"
    /\ outcome = NoOutcome
    /\ peer_closed = FALSE
    /\ reply = None
    /\ unconsumed = <<>>
    /\ call_fed = 0
    /\ zero_recvs = 0
    /\ prev_kind = "none"
    /\ well_served = TRUE
    /\ calls = 0

\* AbstractLircClient.__init__: no Pending Repeat; the socket is connected by
\* the __init__ of the subclass; nothing has been read
NoCall == [op |-> "none", args |-> <<>>, closed |-> FALSE, fresh |-> TRUE]
InitApiVars ==
    /\ last_remote = None
    /\ last_command = None
    /\ socket = "connected"
    /\ api = NoCall
    /\ sent = <<>>
    /\ ret = NoOutcome
    /\ raised = NoExc
    /\ answer = None
    /\ last_start = None
    /\ start_kind = "none"
    /\ verbose = FALSE
    /\ stdout = <<>>
    /\ fed = <<>>
    /\ twin = None
    /\ ops = 0
    /\ received = <<>>
    /\ returned = <<>>

\* UnixDomainSocketLircClient / TcpLircClient: set_timeout(timeout), connect
Init ==
    /\ InitSessionVars
    /\ timeout \in {None, Some(1)}
    /\ InitFeedVars
    /\ input = [k |-> 0, cmd |-> <<"LIST">>, ok |-> TRUE, d |-> None,
                blockEnd |-> FALSE]
    /\ InitApiVars

\* _send_command up to the loop: the packet and a newline are written.  The
\* server, if it is there, answers the packet; recv returns the answer later.
SendCommand(packet) ==
    /\ pc = "idle"
    /\ calls < MaxCalls
    /\ calls' = calls + 1
    /\ sock_out' = Append(sock_out, packet \o <<newline>>)
    /\ pc' = "loop"
    /\ prev_kind' = outcome.kind
    /\ outcome' = NoOutcome
    /\ call_fed' = 0
    /\ zero_recvs' = 0
    /\ IF peer_closed
       THEN /\ reply' = None
            /\ well_served' = FALSE
            /\ UNCHANGED <<sock_in, unconsumed>>
       ELSE \E a \in Answers(packet) :
               /\ reply' = Some(a)
               /\ well_served' = (well_served /\ a.good)
               /\ sock_in' = sock_in \o Wire(a.lines)
               /\ unconsumed' = Append(unconsumed, Len(a.lines))
    /\ UNCHANGED <<parser, in_buffer, timeout, peer_closed>>
    /\ UNCHANGED feed_vars
    /\ UNCHANGED read_vars
    /\ UNCHANGED api_vars

\* Result, but the server error is raised only when success is unset
Result_RaiseOnlyOnNone(p) ==
    IF p.success = None
    THEN [kind |-> "LircServerException", value |-> join(p.data)]
    ELSE [kind |-> "return", value |-> p.data]

\* the end of _send_command, from the parser that has completed
Result(p) ==
    IF p.success # Some(TRUE)
    THEN [kind |-> "LircServerException", value |-> join(p.data)]
    ELSE [kind |-> "return", value |-> p.data]

\* the loop test succeeds: the call raises the server error or returns
Finish ==
    /\ pc = "loop"
    /\ is_completed(parser)
    /\ outcome' = Result(parser)
    /\ pc' = "idle"
    /\ UNCHANGED <<parser, in_buffer, timeout, sock_in, sock_out, peer_closed,
                   reply, unconsumed, call_fed, zero_recvs, prev_kind,
                   well_served, calls>>
    /\ UNCHANGED feed_vars
    /\ UNCHANGED read_vars
    /\ UNCHANGED api_vars

\* one line of a reply has been returned by _read_line
LineRead(u) ==
    IF u = <<>> THEN u
    ELSE IF Head(u) <= 1 THEN Tail(u)
    ELSE <<Head(u) - 1>> \o Tail(u)

\* _read_line finds a newline in the buffer and returns the line before it;
\* the loop skips an empty line and feeds any other to the parser
TakeLine ==
    /\ pc = "loop"
    /\ ~is_completed(parser)
    /\ Contains(in_buffer, newline)
    /\ in_buffer' = SplitLine(in_buffer).rest
    /\ unconsumed' = LineRead(unconsumed)
    /\ LET string == SplitLine(in_buffer).line
           r == feed(parser, string)
       IN  IF string = <<>>
           THEN UNCHANGED <<parser, pc, outcome, call_fed>>
           ELSE /\ parser' = r.parser
                /\ call_fed' = call_fed + 1
                /\ IF r.exc = NoExc
                   THEN UNCHANGED <<pc, outcome>>
                   ELSE /\ pc' = "idle"
                        /\ outcome' = [kind |-> r.exc.type, value |-> r.exc.line]
    /\ UNCHANGED <<timeout, sock_in, sock_out, peer_closed, reply, zero_recvs,
                   prev_kind, well_served, calls>>
    /\ UNCHANGED feed_vars
    /\ UNCHANGED read_vars
    /\ UNCHANGED api_vars

\* the loop going on after the parser has completed
Receiving_AlsoWhenCompleted == pc = "loop" /\ ~Contains(in_buffer, newline)

\* _read_line finds no newline in the buffer and calls recv
Receiving == pc = "loop" /\ ~is_completed(parser) /\ ~Contains(in_buffer, newline)

\* recv returns some of the bytes the server has sent, at least one and at
\* most _READCHUNKLENGTH: as many as have arrived
Recv ==
    /\ Receiving
    /\ \E n \in 1..Min(Len(sock_in), _READCHUNKLENGTH) :
          /\ in_buffer' = in_buffer \o SubSeq(sock_in, 1, n)
          /\ sock_in' = SubSeq(sock_in, n + 1, Len(sock_in))
    /\ UNCHANGED <<parser, timeout, sock_out, pc, outcome, peer_closed, reply,
                   unconsumed, call_fed, zero_recvs, prev_kind, well_served,
                   calls>>
    /\ UNCHANGED feed_vars
    /\ UNCHANGED read_vars
    /\ UNCHANGED api_vars

\* recv on a connection the server has closed returns b'': the buffer gets
\* nothing and the while loop of _read_line goes round again
RecvZero ==
    /\ Receiving
    /\ sock_in = <<>>
    /\ peer_closed
    /\ zero_recvs < MaxZeroRecvs
    /\ zero_recvs' = zero_recvs + 1
    /\ in_buffer' = in_buffer \o <<>>
    /\ UNCHANGED <<parser, timeout, sock_in, sock_out, pc, outcome, peer_closed,
                   reply, unconsumed, call_fed, prev_kind, well_served, calls>>
    /\ UNCHANGED feed_vars
    /\ UNCHANGED read_vars
    /\ UNCHANGED api_vars

\* no byte arrives within the timeout: recv raises socket.timeout, which
\* leaves _read_line and _send_command
RecvTimeout ==
    /\ Receiving
    /\ ~peer_closed
    /\ timeout # None
    /\ pc' = "idle"
    /\ outcome' = [kind |-> "timeout", value |-> <<>>]
    /\ well_served' = FALSE
    /\ UNCHANGED <<parser, in_buffer, timeout, sock_in, sock_out, peer_closed,
                   reply, unconsumed, call_fed, zero_recvs, prev_kind, calls>>
    /\ UNCHANGED feed_vars
    /\ UNCHANGED read_vars
    /\ UNCHANGED api_vars

\* the server closes the connection; what recv has not returned by then was
\* never sent
ServerClose ==
    /\ ~peer_closed
    /\ pc = "loop"
    /\ peer_closed' = TRUE
    /\ sock_in' = <<>>
    /\ well_served' = FALSE
    /\ UNCHANGED <<parser, in_buffer, timeout, sock_out, pc, outcome, reply,
                   unconsumed, call_fed, zero_recvs, prev_kind, calls>>
    /\ UNCHANGED feed_vars
    /\ UNCHANGED read_vars
    /\ UNCHANGED api_vars

Next ==
    \/ \E packet \in Commands : SendCommand(packet)
    \/ Finish
    \/ TakeLine
    \/ Recv
    \/ RecvZero
    \/ RecvTimeout
    \/ ServerClose

Spec == Init /\ [][Next]_vars

----------------------------------------------------------------------------
(* lirc_client.py: the operations of AbstractLircClient (SpecApi).  Each   *)
(* action is one call of an operation, run to its end: the server's answer *)
(* to the packet is on its way when _send_command enters its loop.         *)

\* remote and command names, and the optional arguments of stop_ir: left
\* out (None), the empty string, or a name
StartArgs == {<<(<<"tv">>), (<<"power">>)>>, <<(<<"amp">>), (<<"mute">>)>>}
StopRemotes == {None, Some(<<>>), Some(<<"dvd">>)}
StopKeys == {None, Some(<<>>), Some(<<"play">>)}
Counts == {1, 3}
\* lists of transmitter numbers: none, one, the first and the last, or the
\* last twice
TransmitterLists ==
    {<<>>} \cup {<<(<<DigitOf(i)>>)>> : i \in 1..MaxTransmitter}
           \cup {<<(<<"1">>), (<<DigitOf(MaxTransmitter)>>)>>,
                 <<(<<DigitOf(MaxTransmitter)>>), (<<DigitOf(MaxTransmitter)>>)>>}

\* the truth value Python gives an optional string: None and '' are false
Truthy(x) == x # None /\ x[1] # <<>>

\* 1 << n and a | b
RECURSIVE LeftShift1(_)
LeftShift1(n) == IF n = 0 THEN 1 ELSE 2 * LeftShift1(n - 1)

RECURSIVE BitOr(_, _)
BitOr(a, b) ==
    IF a = 0 THEN b
    ELSE IF b = 0 THEN a
    ELSE (IF a % 2 = 1 \/ b % 2 = 1 THEN 1 ELSE 0) + 2 * BitOr(a \div 2, b \div 2)

\* the length of the longest prefix of s made of symbols of S
RECURSIVE Span(_, _)
Span(s, S) == IF s # <<>> /\ Head(s) \in S THEN 1 + Span(Tail(s), S) ELSE 0

HexDigits == Digits \cup {"a", "b", "c", "d", "e", "f", "A", "B", "C", "D", "E", "F"}

\* re.sub(r'^[0-9a-fA-F]* +', '', cmd): hex digits at the start of cmd and
\* the spaces after them are removed, if there is at least one such space
re_sub(cmd) ==
    LET rest == SubSeq(cmd, Span(cmd, HexDigits) + 1, Len(cmd))
        spaces == Span(rest, {" "})
    IN  IF spaces >= 1 THEN SubSeq(rest, spaces + 1, Len(rest)) ELSE cmd

\* send_ir_command: the packet, with the count not decremented
send_ir_command_packet_CountAsGiven(remote, command, count) ==
    <<"SEND_ONCE", " ">> \o remote \o <<" ">> \o command \o <<" ">> \o str(count)

\* send_ir_command: the packet
send_ir_command_packet(remote, command, count) ==
    <<"SEND_ONCE", " ">> \o remote \o <<" ">> \o command \o <<" ">> \o str(count - 1)

\* send_ir_command_repeat: the packet
send_ir_command_repeat_packet(remote, command) ==
    <<"SEND_START", " ">> \o remote \o <<" ">> \o command

\* stop_ir: the packet, with '' used for a value that is None
stop_ir_packet_NoneAsEmpty(remote, command) ==
    LET r == IF Truthy(remote) THEN remote ELSE last_remote
        c == IF Truthy(command) THEN command ELSE last_command
    IN  Some(<<"SEND_STOP", " ">> \o (IF r = None THEN <<>> ELSE r[1])
                 \o <<" ">> \o (IF c = None THEN <<>> ELSE c[1]))

\* stop_ir: the packet, with every argument that is not None sent as given
stop_ir_packet_TestsForNone(remote, command) ==
    LET r == IF remote # None THEN remote ELSE last_remote
        c == IF command # None THEN command ELSE last_command
    IN  IF r = None \/ c = None
        THEN None
        ELSE Some(<<"SEND_STOP", " ">> \o r[1] \o <<" ">> \o c[1])

\* stop_ir: the packet; None when the concatenation raises TypeError, which
\* str + None does
stop_ir_packet(remote, command) ==
    LET r == IF Truthy(remote) THEN remote ELSE last_remote
        c == IF Truthy(command) THEN command ELSE last_command
    IN  IF r = None \/ c = None
        THEN None
        ELSE Some(<<"SEND_STOP", " ">> \o r[1] \o <<" ">> \o c[1])

\* set_transmitters: the mask, with transmitter i on bit i
RECURSIVE mask_BitIsIndex(_)
mask_BitIsIndex(transmitters) ==
    IF transmitters = <<>> THEN 0
    ELSE BitOr(mask_BitIsIndex(SubSeq(transmitters, 1, Len(transmitters) - 1)),
               LeftShift1(int(transmitters[Len(transmitters)])))

\* set_transmitters: the mask after the loop over transmitters
RECURSIVE mask(_)
mask(transmitters) ==
    IF transmitters = <<>> THEN 0
    ELSE BitOr(mask(SubSeq(transmitters, 1, Len(transmitters) - 1)),
               LeftShift1(int(transmitters[Len(transmitters)]) - 1))

\* set_transmitters_mask: the packet
set_transmitters_mask_packet(m) == <<"SET_TRANSMITTERS", " ">> \o str(m)

\* get_commands: the packet
get_commands_packet(remote) == <<"LIST", " ">> \o remote

\* get_commands: what is returned for the list raw of _send_command
RECURSIVE get_commands_result(_, _)
get_commands_result(raw, include_codes) ==
    IF include_codes \/ raw = <<>> THEN raw
    ELSE <<re_sub(Head(raw))>> \o get_commands_result(Tail(raw), include_codes)

\* what the server answers in SpecApi.  at and bad: the answer has the line
\* bad where the parser of a new session is in state at
ApiAnswer(ok, d) ==
    [good |-> TRUE, ok |-> ok, d |-> d, at |-> "none", bad |-> <<>>,
     lines |-> <<BEGIN, <<"_">>, IF ok THEN SUCCESS ELSE ERROR>> \o DataBlock(d) \o <<END>>]

\* to a command that asks for nothing: a bare SUCCESS, or ERROR with a text
PlainAnswers == {ApiAnswer(TRUE, None), ApiAnswer(FALSE, Some(<<(<<"tv">>)>>))}

\* to LIST <remote>: commands with their codes
CodedLines ==
    <<(<<"2", "A", "3", "F", " ", " ", "power_on">>), (<<"0", "b", " ", "mute">>),
      (<<"play">>)>>
CodedAnswers ==
    {ApiAnswer(TRUE, Some(SubSeq(CodedLines, 1, n))) :
        n \in {1, Min(MaxDataLines, Len(CodedLines))}}

\* the lines that take a new parser to the state at, and lines that take it
\* from there to the end of a reply
LinesTo(at) ==
    CASE at = "RESULT" -> <<BEGIN, <<"_">>>>
      [] at = "DATA" -> <<BEGIN, <<"_">>, SUCCESS>>
      [] at = "END" -> <<BEGIN, <<"_">>, SUCCESS, DATA, <<"1">>, <<"tv">>>>
      [] at = "SIGHUP_END" -> <<BEGIN, <<"_">>, SIGHUP>>
LinesFrom(at) ==
    CASE at = "RESULT" -> <<SUCCESS, END>>
      [] at = "DATA" -> <<END>>
      [] at = "END" -> <<END>>
      [] at = "SIGHUP_END" -> <<END, BEGIN, <<"_">>, SUCCESS, END>>

\* lines a server may put where the grammar has another line
StrayLines == {<<"end">>, <<" ">>, <<"END", " ">>}

StrayAnswers ==
    {[good |-> FALSE, ok |-> TRUE, d |-> None, at |-> at, bad |-> l,
      lines |-> LinesTo(at) \o <<l>> \o LinesFrom(at)] :
        at \in {"RESULT", "DATA", "END", "SIGHUP_END"}, l \in StrayLines}

ListAnswers ==
    {ApiAnswer(ok, d) : ok \in BOOLEAN, d \in {None, Some(<<(<<"tv">>)>>)}}
        \cup StrayAnswers

\* the lines of answer a, with the echo of the packet in their second line
AnswerTo(packet, a) ==
    [a EXCEPT !.lines = [i \in 1..Len(a.lines) |->
                            IF a.lines[i] = <<"_">> THEN packet ELSE a.lines[i]]]

\* a round of the loop that called feed with result r
Round(r, printed, fed_lines) ==
    [parser |-> r.parser, exc |-> r.exc, printed |-> printed, fed |-> fed_lines]

\* one round of the while loop of _send_command for the line string that
\* _read_line returned, where a verbose session prints and then skips feed
LoopBody_VerboseSkipsFeed(v, p, string) ==
    IF string = <<>>
    THEN [parser |-> p, exc |-> NoExc, printed |-> <<>>, fed |-> <<>>]
    ELSE IF v
    THEN [parser |-> p, exc |-> NoExc,
          printed |-> <<(<<"Received", string>>)>>, fed |-> <<>>]
    ELSE Round(feed(p, string), <<>>, <<string>>)

\* one round of the while loop of _send_command for the line string that
\* _read_line returned: an empty line is skipped; any other is printed if
\* the session is verbose, and fed
LoopBody(v, p, string) ==
    IF string = <<>>
    THEN [parser |-> p, exc |-> NoExc, printed |-> <<>>, fed |-> <<>>]
    ELSE Round(feed(p, string),
               IF v THEN <<(<<"Received", string>>)>> ELSE <<>>, <<string>>)

\* _send_command from its while loop on, with the bytes sock to come from
\* recv: the loop ends when the parser is completed or feed raises; recv
\* raises socket.timeout when no byte is left
RECURSIVE RunLoop(_, _, _, _)

\* what was printed and fed in a round, before what came after it
Before(b, r) == [r EXCEPT !.printed = b.printed \o @, !.fed = b.fed \o @]

\* the loop after the round b: it goes on, or the exception of feed ends it
AfterRound(v, b, rest, sock) ==
    Before(b, IF b.exc = NoExc
              THEN RunLoop(v, b.parser, rest, sock)
              ELSE [parser |-> b.parser, in_buffer |-> rest, sock_in |-> sock,
                    outcome |-> [kind |-> b.exc.type, value |-> b.exc.line],
                    exc |-> b.exc, printed |-> <<>>, fed |-> <<>>])

RunLoop(v, p, buf, sock) ==
    IF is_completed(p)
    THEN [parser |-> p, in_buffer |-> buf, sock_in |-> sock,
          outcome |-> Result(p), exc |-> NoExc, printed |-> <<>>, fed |-> <<>>]
    ELSE IF Contains(buf, newline)
    THEN AfterRound(v, LoopBody(v, p, SplitLine(buf).line), SplitLine(buf).rest, sock)
    ELSE IF sock # <<>>
    THEN LET n == Min(Len(sock), _READCHUNKLENGTH)
         IN  RunLoop(v, p, buf \o SubSeq(sock, 1, n), SubSeq(sock, n + 1, Len(sock)))
    ELSE [parser |-> p, in_buffer |-> buf, sock_in |-> sock,
          outcome |-> [kind |-> "timeout", value |-> <<>>], exc |-> NoExc,
          printed |-> <<>>, fed |-> <<>>]

\* what the operation of call returns when _send_command ends with out
Returned(call, out) ==
    IF out.kind # "return" THEN out
    ELSE IF call.op = "get_remotes" THEN out
    ELSE IF call.op = "get_commands"
    THEN [kind |-> "return", value |-> get_commands_result(out.value, call.args[2])]
    ELSE IF call.op = "get_version"
    THEN IF out.value = <<>>
         THEN [kind |-> "IndexError", value |-> <<>>]
         ELSE [kind |-> "return", value |-> out.value[1]]
    ELSE [kind |-> "return", value |-> None]

\* the call of an operation begins
Called(call) ==
    /\ ops < MaxOps
    /\ ops' = ops + 1
    /\ api' = [call EXCEPT !.closed = (api.closed \/ api.op = "close"),
                           !.fresh = (parser = ReplyParser /\ in_buffer = <<>>
                                        /\ sock_in = <<>>)]

pending_vars == <<last_remote, last_command, last_start, start_kind>>

\* an operation ends without calling _send_command
Ends(call, how) ==
    /\ Called(call)
    /\ ret' = how
    /\ sent' = <<>>
    /\ raised' = NoExc
    /\ answer' = None
    /\ stdout' = <<>>
    /\ fed' = <<>>
    /\ twin' = None
    /\ UNCHANGED session_vars
    /\ UNCHANGED feed_vars
    /\ UNCHANGED read_vars

\* an operation raises before it calls _send_command
Raises(call, type) ==
    /\ Ends(call, [kind |-> type, value |-> <<>>])
    /\ UNCHANGED <<socket, verbose>>

\* socket.close(), leaving the socket as it is
socket_close_NoEffect == socket

\* socket.close()
socket_close == "closed"

\* what _send_command prints before it sends, if the session is verbose
Sending(v, packet) == IF v THEN <<(<<"Sending", packet>>)>> ELSE <<>>

\* _send_command(packet) whose loop ran as r, after the packet was written
Sent(v, call, packet, r) ==
    [sent |-> <<packet \o <<newline>>>>,
     stdout |-> Sending(v, packet) \o r.printed, fed |-> r.fed,
     outcome |-> r.outcome, ret |-> Returned(call, r.outcome),
     exc |-> r.exc, parser |-> r.parser, in_buffer |-> r.in_buffer,
     sock_in |-> r.sock_in]

\* _send_command(packet) run by a session with verbosity v in the state of
\* this session: what it writes, prints and feeds, how the operation of
\* call ends, and the parser and the buffer it leaves
Run(v, call, packet, lines) ==
    IF socket = "closed"
    THEN [sent |-> <<>>, stdout |-> Sending(v, packet), fed |-> <<>>,
          outcome |-> [kind |-> "OSError", value |-> <<>>],
          ret |-> [kind |-> "OSError", value |-> <<>>], exc |-> NoExc,
          parser |-> parser, in_buffer |-> in_buffer, sock_in |-> sock_in]
    ELSE Sent(v, call, packet, RunLoop(v, parser, in_buffer, sock_in \o Wire(lines)))

\* what of a run can be seen without looking at what was printed
Seen(r) ==
    [sent |-> r.sent, fed |-> r.fed, ret |-> r.ret, parser |-> r.parser,
     in_buffer |-> r.in_buffer]

\* the session after the run r of _send_command
Ran(r) ==
    /\ parser' = r.parser
    /\ in_buffer' = r.in_buffer
    /\ sock_in' = r.sock_in
    /\ sent' = r.sent
    /\ stdout' = r.stdout
    /\ fed' = r.fed
    /\ outcome' = r.outcome
    /\ ret' = r.ret
    /\ raised' = r.exc

\* _send_command(packet) within an operation.  send on a closed socket
\* raises OSError; on a connected one the packet and a newline are written
\* (sent keeps them: the server takes them off the socket at once), the
\* server answers with a, and the loop runs.  twin is the same call by a
\* session of the other verbosity.
_send_command(call, packet, a) ==
    /\ Called(call)
    /\ Ran(Run(verbose, call, packet, AnswerTo(packet, a).lines))
    /\ twin' = Some(Seen(Run(~verbose, call, packet, AnswerTo(packet, a).lines)))
    /\ IF socket = "closed"
       THEN answer' = None /\ UNCHANGED well_served
       ELSE /\ answer' = Some(AnswerTo(packet, a))
            /\ well_served' = (well_served /\ a.good)
    /\ UNCHANGED <<socket, verbose, timeout, sock_out, pc, peer_closed, reply,
                   unconsumed, call_fed, zero_recvs, prev_kind, calls>>
    /\ UNCHANGED feed_vars
    /\ UNCHANGED read_vars

Call(op, args) == [NoCall EXCEPT !.op = op, !.args = args]

\* a reply with the line l where a new parser is in state at
StrayAnswer(at, l) ==
    [good |-> FALSE, ok |-> TRUE, d |-> None, at |-> at, bad |-> l,
     lines |-> LinesTo(at) \o <<l>> \o LinesFrom(at)]

\* no reply at all
SilentAnswer ==
    [good |-> FALSE, ok |-> TRUE, d |-> None, at |-> "none", bad |-> <<>>,
     lines |-> <<>>]

\* to SEND_START: success, a server error, a line out of place, or nothing
StartAnswers == PlainAnswers \cup {StrayAnswer("RESULT", <<"end">>), SilentAnswer}

\* to VERSION: the version, or success without data
VersionAnswers == {ApiAnswer(TRUE, Some(<<(<<"0.10">>)>>)), ApiAnswer(TRUE, None)}

send_ir_command(remote, command, count) ==
    /\ _send_command(Call("send_ir_command", <<remote, command, count>>),
                     send_ir_command_packet(remote, command, count),
                     ApiAnswer(TRUE, None))
    /\ UNCHANGED pending_vars

\* send_ir_command_repeat recording nothing
send_ir_command_repeat_Pending_Unrecorded(remote, command) ==
    <<last_remote, last_command>>

\* send_ir_command_repeat recording only the first pair
send_ir_command_repeat_Pending_KeepsFirst(remote, command) ==
    IF last_remote = None THEN <<Some(remote), Some(command)>>
    ELSE <<last_remote, last_command>>

\* send_ir_command_repeat: _last_remote and _last_command as it sets them
send_ir_command_repeat_Pending(remote, command) == <<Some(remote), Some(command)>>

\* the Pending Repeat is recorded, then the packet is sent
send_ir_command_repeat(remote, command) ==
    /\ last_remote' = send_ir_command_repeat_Pending(remote, command)[1]
    /\ last_command' = send_ir_command_repeat_Pending(remote, command)[2]
    /\ last_start' = Some(<<remote, command>>)
    /\ \E a \in StartAnswers :
          _send_command(Call("send_ir_command_repeat", <<remote, command>>),
                        send_ir_command_repeat_packet(remote, command), a)
    /\ start_kind' = ret'.kind

stop_ir(remote, command) ==
    /\ IF stop_ir_packet(remote, command) = None
       THEN Raises(Call("stop_ir", <<remote, command>>), "TypeError")
       ELSE _send_command(Call("stop_ir", <<remote, command>>),
                          stop_ir_packet(remote, command)[1],
                          ApiAnswer(TRUE, None))
    /\ UNCHANGED pending_vars

get_remotes ==
    /\ \E a \in ListAnswers : _send_command(Call("get_remotes", <<>>), <<"LIST">>, a)
    /\ UNCHANGED pending_vars

get_commands(remote, include_codes) ==
    /\ \E a \in CodedAnswers :
          _send_command(Call("get_commands", <<remote, include_codes>>),
                        get_commands_packet(remote), a)
    /\ UNCHANGED pending_vars

\* set_transmitters, and set_transmitters_mask which it calls
set_transmitters(transmitters) ==
    /\ _send_command(Call("set_transmitters", <<transmitters>>),
                     set_transmitters_mask_packet(mask(transmitters)),
                     ApiAnswer(TRUE, None))
    /\ UNCHANGED pending_vars

\* get_version: result[0] raises IndexError when the reply has no data
get_version ==
    /\ \E a \in VersionAnswers :
          _send_command(Call("get_version", <<>>), <<"VERSION">>, a)
    /\ UNCHANGED pending_vars

\* set_input_log: the packet, ("SET_INPUTLOG " + path) or ""; None when
\* path is None and the concatenation raises TypeError
set_input_log_packet(path) ==
    IF path = None THEN None
    ELSE IF <<"SET_INPUTLOG", " ">> \o path[1] # <<>>
    THEN Some(<<"SET_INPUTLOG", " ">> \o path[1])
    ELSE Some(<<>>)

set_input_log(path) ==
    /\ IF set_input_log_packet(path) = None
       THEN Raises(Call("set_input_log", <<path>>), "TypeError")
       ELSE _send_command(Call("set_input_log", <<path>>),
                          set_input_log_packet(path)[1], ApiAnswer(TRUE, None))
    /\ UNCHANGED pending_vars

set_driver_option(key, value) ==
    /\ _send_command(Call("set_driver_option", <<key, value>>),
                     <<"DRV_OPTION", " ">> \o key \o <<" ">> \o value,
                     ApiAnswer(TRUE, None))
    /\ UNCHANGED pending_vars

simulate(event_string) ==
    /\ _send_command(Call("simulate", <<event_string>>),
                     <<"SIMULATE", " ">> \o event_string, ApiAnswer(TRUE, None))
    /\ UNCHANGED pending_vars

set_verbose(v) ==
    /\ Ends(Call("set_verbose", <<v>>), [kind |-> "return", value |-> None])
    /\ verbose' = v
    /\ UNCHANGED socket
    /\ UNCHANGED pending_vars

close ==
    /\ Ends(Call("close", <<>>), [kind |-> "return", value |-> None])
    /\ socket' = socket_close
    /\ UNCHANGED verbose
    /\ UNCHANGED pending_vars

\* a session of a subclass, connected, with a timeout set
InitApi ==
    /\ InitSessionVars
    /\ timeout = Some(1)
    /\ InitFeedVars
    /\ input = [k |-> 0, cmd |-> <<"LIST">>, ok |-> TRUE, d |-> None,
                blockEnd |-> FALSE]
    /\ InitApiVars

NextApi ==
    \/ \E count \in Counts : send_ir_command(<<"tv">>, <<"power">>, count)
    \/ \E s \in StartArgs : send_ir_command_repeat(s[1], s[2])
    \/ \E remote \in StopRemotes, command \in StopKeys : stop_ir(remote, command)
    \/ get_remotes
    \/ \E include_codes \in BOOLEAN : get_commands(<<"tv">>, include_codes)
    \/ \E transmitters \in TransmitterLists : set_transmitters(transmitters)
    \/ get_version
    \/ \E path \in {None, Some(<<"log">>)} : set_input_log(path)
    \/ set_driver_option(<<"key">>, <<"value">>)
    \/ simulate(<<"event">>)
    \/ set_verbose(~verbose)
    \/ close

SpecApi == InitApi /\ [][NextApi]_vars

----------------------------------------------------------------------------
(* lirc_client.py: _read_line on its own (SpecRead).  The server sends     *)
(* bytes, recv returns them in chunks, and _read_line is called again and  *)
(* again.                                                                  *)

StreamBytes == {"a", newline}

\* the server sends one more byte
ServerSends ==
    /\ Len(received) + Len(sock_in) < MaxStream
    /\ \E b \in StreamBytes : sock_in' = Append(sock_in, b)
    /\ UNCHANGED <<parser, in_buffer, timeout, sock_out, pc, outcome, peer_closed,
                   reply, unconsumed, call_fed, zero_recvs, prev_kind,
                   well_served, calls>>
    /\ UNCHANGED read_vars
    /\ UNCHANGED feed_vars
    /\ UNCHANGED api_vars

\* _read_line: no newline in the buffer, recv returns a chunk, which is
\* added to the buffer
ReadLineRecv ==
    /\ ~Contains(in_buffer, newline)
    /\ \E n \in 1..Min(Len(sock_in), _READCHUNKLENGTH) :
          /\ in_buffer' = in_buffer \o SubSeq(sock_in, 1, n)
          /\ received' = received \o SubSeq(sock_in, 1, n)
          /\ sock_in' = SubSeq(sock_in, n + 1, Len(sock_in))
    /\ UNCHANGED <<parser, timeout, sock_out, pc, outcome, peer_closed, reply,
                   unconsumed, call_fed, zero_recvs, prev_kind, well_served,
                   calls>>
    /\ UNCHANGED returned
    /\ UNCHANGED feed_vars
    /\ UNCHANGED api_vars

\* _read_line: a newline is in the buffer; the buffer is split at the first
\* one, the line before it is returned and the rest is kept
ReadLineReturn ==
    /\ Contains(in_buffer, newline)
    /\ returned' = Append(returned, SplitLine(in_buffer).line)
    /\ in_buffer' = SplitLine(in_buffer).rest
    /\ UNCHANGED <<parser, timeout, sock_in, sock_out, pc, outcome, peer_closed,
                   reply, unconsumed, call_fed, zero_recvs, prev_kind,
                   well_served, calls>>
    /\ UNCHANGED received
    /\ UNCHANGED feed_vars
    /\ UNCHANGED api_vars

NextRead == ServerSends \/ ReadLineRecv \/ ReadLineReturn

SpecRead == InitApi /\ [][NextRead]_vars

----------------------------------------------------------------------------
(* SpecLegacy: the operations of the client of LircClient.py, each run from
   its call to its return or its exception.  in_buffer and sock_in are the
   buffer and the socket of the legacy session, outcome is how its
   send_command ended, ret how the operation ended, and twin how the
   _send_command of lirc_client.py ends on a new session that reads the
   same reply. *)

\* str.lower() on the words of the model
str_lower(s) ==
    [i \in 1..Len(s) |->
        CASE s[i] = "LIST" -> "list" [] s[i] = "SET_TRANSMITTERS" -> "set_transmitters"
          [] OTHER -> s[i]]

\* the local variables of send_command before its loop
Legacy_locals ==
    [state |-> "P_BEGIN", result |-> <<>>, success |-> TRUE,
     lines_receives |-> 0, lines_expected |-> -1]

Legacy_Ok(st) == [st |-> st, exc |-> "none"]
Legacy_Raise(st, type) == [st |-> st, exc |-> type]

\* the branch of P_N without the case of a count of zero
Legacy_P_N_NoZeroCase(st, string) ==
    IF ~IntParses(string) THEN Legacy_Raise(st, "ValueError")
    ELSE Legacy_Ok([st EXCEPT !.lines_expected = int(string), !.state = "P_DATA_N"])

\* the branch of P_N: int(string) raises ValueError
Legacy_P_N(st, string) ==
    IF ~IntParses(string) THEN Legacy_Raise(st, "ValueError")
    ELSE Legacy_Ok([st EXCEPT !.lines_expected = int(string),
                              !.state = IF int(string) = 0 THEN "P_END"
                                        ELSE "P_DATA_N"])

\* one round of the while loop of send_command for the line string
Legacy_step(packet, st, string) ==
    CASE st.state = "P_BEGIN" ->
            Legacy_Ok(IF string = BEGIN THEN [st EXCEPT !.state = "P_MESSAGE"] ELSE st)
      [] st.state = "P_MESSAGE" ->
            Legacy_Ok([st EXCEPT !.state =
                          IF str_lower(strip(string)) = str_lower(packet)
                          THEN "P_STATUS" ELSE "P_BEGIN"])
      [] st.state = "P_STATUS" ->
            IF string = SUCCESS THEN Legacy_Ok([st EXCEPT !.state = "P_DATA"])
            ELSE IF string = END THEN Legacy_Ok([st EXCEPT !.state = "P_DONE"])
            ELSE IF string = ERROR
            THEN Legacy_Ok([st EXCEPT !.state = "P_DATA", !.success = FALSE])
            ELSE Legacy_Raise(st, "BadPacketException")
      [] st.state = "P_DATA" ->
            IF string = END THEN Legacy_Ok([st EXCEPT !.state = "P_DONE"])
            ELSE IF string = DATA THEN Legacy_Ok([st EXCEPT !.state = "P_N"])
            ELSE Legacy_Raise(st, "BadPacketException")
      [] st.state = "P_N" -> Legacy_P_N(st, string)
      [] st.state = "P_DATA_N" ->
            LET q == [st EXCEPT !.result = Append(st.result, string),
                                !.lines_receives = st.lines_receives + 1]
            IN  Legacy_Ok(IF q.lines_receives = q.lines_expected
                          THEN [q EXCEPT !.state = "P_END"] ELSE q)
      [] st.state = "P_END" ->
            IF string = END THEN Legacy_Ok([st EXCEPT !.state = "P_DONE"])
            ELSE Legacy_Raise(st, "BadPacketException")

\* read_line for a buffer that holds a linefeed: the line before the first
\* linefeed, and the buffer after it
Legacy_read_line(buf) ==
    LET n == Find(buf, newline)
    IN  [line |-> SubSeq(buf, 1, n - 1), rest |-> SubSeq(buf, n + 1, Len(buf))]

READCHUNK == 4096

\* send_command from its while loop on, with the bytes sock to come from
\* recv; recv raises socket.timeout when no byte is left
RECURSIVE Legacy_loop(_, _, _, _)
Legacy_loop(packet, st, buf, sock) ==
    IF st.state = "P_DONE"
    THEN [in_buffer |-> buf, sock_in |-> sock,
          outcome |-> IF ~st.success
                      THEN [kind |-> "LircServerException", value |-> join(st.result)]
                      ELSE [kind |-> "return", value |-> st.result]]
    ELSE IF Contains(buf, newline)
    THEN LET l == Legacy_read_line(buf)
             r == Legacy_step(packet, st, l.line)
         IN  IF r.exc = "none" THEN Legacy_loop(packet, r.st, l.rest, sock)
             ELSE [in_buffer |-> l.rest, sock_in |-> sock,
                   outcome |-> [kind |-> r.exc, value |-> <<>>]]
    ELSE IF sock # <<>>
    THEN LET n == Min(Len(sock), READCHUNK)
         IN  Legacy_loop(packet, st, buf \o SubSeq(sock, 1, n),
                         SubSeq(sock, n + 1, Len(sock)))
    ELSE [in_buffer |-> buf, sock_in |-> sock,
          outcome |-> [kind |-> "timeout", value |-> <<>>]]

legacy_others ==
    <<parser, timeout, sock_out, pc, peer_closed, reply, unconsumed, call_fed,
      zero_recvs, prev_kind, well_served, last_remote, last_command, socket,
      raised, last_start, start_kind, verbose, stdout, fed, ops>>

\* the call of an operation of the legacy session begins
Legacy_Called(call) ==
    /\ calls < MaxCalls
    /\ calls' = calls + 1
    /\ api' = [call EXCEPT !.fresh = (in_buffer = <<>> /\ sock_in = <<>>)]
    /\ UNCHANGED legacy_others
    /\ UNCHANGED feed_vars
    /\ UNCHANGED read_vars

\* a reply with the line n for the count of its DATA block
CountAnswer(n) ==
    [good |-> FALSE, ok |-> TRUE, d |-> None, at |-> "LINE_COUNT", bad |-> n,
     lines |-> <<BEGIN, <<"_">>, SUCCESS, DATA, n, <<"tv">>, END>>]

\* a reply with the line e for the echo of the command
EchoAnswer(e) ==
    [good |-> FALSE, ok |-> TRUE, d |-> None, at |-> "COMMAND", bad |-> e,
     lines |-> <<BEGIN, e, SUCCESS, END>>]

RemoteNames == <<(<<"tv">>), (<<"amp">>), (<<"dvd">>)>>

\* what the server answers in SpecLegacy: SUCCESS or ERROR with no DATA
\* block or one of 0..MaxDataLines lines; a DATA line with a space before it;
\* a line out of place; a count that is negative or no number; an echo in
\* lower case; nothing
LegacyAnswers ==
    {ApiAnswer(ok, None) : ok \in BOOLEAN}
        \cup {ApiAnswer(ok, Some(SubSeq(RemoteNames, 1, n))) :
                ok \in BOOLEAN, n \in 0..Min(MaxDataLines, Len(RemoteNames))}
        \cup {ApiAnswer(TRUE, Some(<<(<<" ", "tv">>)>>))}
        \cup StrayAnswers
        \cup {StrayAnswer("RESULT", END)}
        \cup {CountAnswer(<<"-", "1">>), CountAnswer(<<"x">>)}
        \cup {EchoAnswer(<<"list">>)}
        \cup {SilentAnswer}

\* send_command(packet) within an operation of the legacy session, answered
\* by the server with a
Legacy_send_command(call, packet, a) ==
    /\ Legacy_Called(call)
    /\ LET lines == AnswerTo(packet, a).lines
           r == Legacy_loop(packet, Legacy_locals, in_buffer, sock_in \o Wire(lines))
       IN  /\ in_buffer' = r.in_buffer
           /\ sock_in' = r.sock_in
           /\ outcome' = r.outcome
           /\ twin' = Some(RunLoop(FALSE, ReplyParser, <<>>, Wire(lines)).outcome)
    /\ sent' = <<packet \o <<newline>>>>
    /\ answer' = Some(AnswerTo(packet, a))

\* what an operation returns that returns `send_command(...) is not None`
IsNotNone(out) ==
    IF out.kind = "return" THEN [kind |-> "return", value |-> TRUE] ELSE out

Legacy_get_remotes ==
    /\ \E a \in LegacyAnswers :
          Legacy_send_command(Call("get_remotes", <<>>), <<"LIST">>, a)
    /\ ret' = outcome'

Legacy_get_commands(remote, include_codes) ==
    /\ \E a \in LegacyAnswers :
          Legacy_send_command(Call("get_commands", <<remote, include_codes>>),
                              <<"LIST", " ">> \o remote, a)
    /\ ret' = IF outcome'.kind = "return"
              THEN [kind |-> "return",
                    value |-> get_commands_result(outcome'.value, include_codes)]
              ELSE outcome'

Legacy_set_transmitters_mask(m) ==
    /\ Legacy_send_command(Call("set_transmitters_mask", <<m>>),
                           <<"SET_TRANSMITTERS", " ">> \o str(m), ApiAnswer(TRUE, None))
    /\ ret' = IsNotNone(outcome')

\* set_transmitters: the mask after the loop over transmitters
RECURSIVE Legacy_mask(_)
Legacy_mask(transmitters) ==
    IF transmitters = <<>> THEN 0
    ELSE BitOr(Legacy_mask(SubSeq(transmitters, 1, Len(transmitters) - 1)),
               LeftShift1(int(transmitters[Len(transmitters)]) - 1))

\* set_transmitters(arg): the loop over an int raises TypeError; after the
\* loop over a list the method calls itself with the mask, an int
RECURSIVE Legacy_set_transmitters_outcome(_)
Legacy_set_transmitters_outcome(arg) ==
    IF arg.type = "int"
    THEN [kind |-> "TypeError", value |-> <<>>]
    ELSE Legacy_set_transmitters_outcome([type |-> "int", value |-> Legacy_mask(arg.value)])

Legacy_set_transmitters(transmitters) ==
    /\ Legacy_Called(Call("set_transmitters", <<transmitters>>))
    /\ ret' = Legacy_set_transmitters_outcome([type |-> "list", value |-> transmitters])
    /\ outcome' = NoOutcome
    /\ sent' = <<>>
    /\ answer' = None
    /\ twin' = None
    /\ UNCHANGED <<in_buffer, sock_in>>

NextLegacy ==
    \/ Legacy_get_remotes
    \/ \E remote \in {<<"tv">>, <<>>}, include_codes \in BOOLEAN :
          Legacy_get_commands(remote, include_codes)
    \/ \E transmitters \in TransmitterLists :
          Legacy_set_transmitters_mask(Legacy_mask(transmitters))
    \/ \E transmitters \in TransmitterLists : Legacy_set_transmitters(transmitters)

SpecLegacy == InitApi /\ [][NextLegacy]_vars

----------------------------------------------------------------------------
(* SpecFeed: a ReplyParser in its initial state, fed line by line *)

InitFeed ==
    /\ InitFeedVars
    /\ input \in Shapes
    /\ InitSessionVars
    /\ timeout = None
    /\ InitApiVars

DoFeed(line) ==
    /\ rp_before' = rp
    /\ fed_line' = Some(line)
    /\ rp' = feed(rp, line).parser
    /\ feed_exc' = feed(rp, line).exc

\* the next line of the input is fed
FeedNext ==
    /\ pos < Len(LinesOf(input))
    /\ DoFeed(LinesOf(input)[pos + 1])
    /\ pos' = pos + 1
    /\ UNCHANGED <<input, injected>>
    /\ UNCHANGED session_vars
    /\ UNCHANGED read_vars
    /\ UNCHANGED api_vars

\* some other line is fed
FeedOther ==
    /\ injected < MaxInject
    /\ \E line \in OtherLines : DoFeed(line)
    /\ injected' = injected + 1
    /\ UNCHANGED <<input, pos>>
    /\ UNCHANGED session_vars
    /\ UNCHANGED read_vars
    /\ UNCHANGED api_vars

NextFeed == FeedNext \/ FeedOther

SpecFeed == InitFeed /\ [][NextFeed]_vars

----------------------------------------------------------------------------
(* Claims about a ReplyParser fed from its initial state (SpecFeed) *)

RECURSIVE StripAll(_)
StripAll(lines) ==
    IF lines = <<>> THEN <<>> ELSE <<strip(Head(lines))>> \o StripAll(Tail(lines))

\* the lines of the DATA block of a shape (none without a block)
BlockLines(sh) == IF sh.d = None THEN <<>> ELSE sh.d[1]

\* the whole input has been fed, in order, and nothing else
FedWholeInput == pos = Len(LinesOf(input)) /\ injected = 0

\* a line feed looks at: it is not empty and not whitespace only
NonBlank(line) == strip(line) # <<>>

\* C1 as claimed: after a well-formed reply (its DATA lines non-empty) has
\* been fed to a new parser, is_completed is true, success tells whether the
\* status line was SUCCESS, and data is the sequence of the DATA lines.
C1_DataEqualsDataLines ==
    (/\ FedWholeInput
     /\ input.k = 0
     /\ \A i \in 1..Len(BlockLines(input)) : BlockLines(input)[i] # <<>>)
    => /\ is_completed(rp)
       /\ rp.success = Some(input.ok)
       /\ rp.data = BlockLines(input)

\* C1 as amended: after a well-formed reply whose DATA lines each hold a
\* character that is not whitespace has been fed to a new parser,
\* is_completed is true, success tells whether the status line was SUCCESS,
\* and data is the sequence of the DATA lines, each with its surrounding
\* whitespace removed (empty when the reply has no DATA block).
C1_DataEqualsStrippedLines ==
    (/\ FedWholeInput
     /\ input.k = 0
     /\ \A i \in 1..Len(BlockLines(input)) : NonBlank(BlockLines(input)[i]))
    => /\ is_completed(rp)
       /\ rp.success = Some(input.ok)
       /\ rp.data = StripAll(BlockLines(input))

\* a reply with two DATA lines, the second one padded, has been fed whole
C1_Witness ==
    /\ FedWholeInput
    /\ input.k = 0
    /\ ~input.ok
    /\ input.d = Some(<<(<<"stereo">>), (<<" ", "tv">>)>>)
    /\ rp.data = <<(<<"stereo">>), (<<"tv">>)>>
    /\ is_completed(rp)

\* the parser after feeding lines one after the other to p; an exception
\* ends the call that raised it and leaves the parser as that call left it
RECURSIVE FeedAll(_, _)
FeedAll(p, lines) ==
    IF lines = <<>> THEN p ELSE FeedAll(feed(p, Head(lines)).parser, Tail(lines))

\* C3: SIGHUP frames fed before the BEGIN of the reply raise no protocol
\* error; once the reply has been fed the parser is completed, with the
\* success and the data it has when the frames are left out, and SIGHUP is
\* not in data.
C3_SighupFramesAbsorbed ==
    (input.k >= 1 /\ injected = 0)
    => /\ feed_exc.type # "BadPacketException"
       /\ FedWholeInput
          => LET alone == FeedAll(ReplyParser,
                                  Reply(input.cmd, input.ok, input.d, input.blockEnd))
             IN  /\ is_completed(rp)
                 /\ rp.success = alone.success
                 /\ rp.data = alone.data
                 /\ \A i \in 1..Len(rp.data) : rp.data[i] # SIGHUP

\* a line that is parseable as a non-negative integer
IsNonNegativeInteger(line) == IntParses(line) /\ int(line) >= 0

\* C9: in AWAIT_LINE_COUNT a line that is not parseable as a non-negative
\* integer makes feed raise a protocol error, and state, data and
\* lines_expected stay as they were.
C9_BadCountRaises ==
    (/\ fed_line # None
     /\ rp_before.state = "LINE_COUNT"
     /\ NonBlank(fed_line[1])
     /\ ~IsNonNegativeInteger(strip(fed_line[1])))
    => /\ feed_exc.type = "BadPacketException"
       /\ rp.state = "LINE_COUNT"
       /\ rp.data = rp_before.data
       /\ rp.lines_expected = rp_before.lines_expected

\* the last feed call read a count N >= 0 in AWAIT_LINE_COUNT
CountFed ==
    /\ fed_line # None
    /\ rp_before.state = "LINE_COUNT"
    /\ IsNonNegativeInteger(strip(fed_line[1]))

\* the declared line count is N >= 0
Declared == rp.lines_expected # None /\ rp.lines_expected[1] >= 0

\* what C10 says apart from the line appended in COLLECTING_LINES
C10_CountLogic ==
    /\ CountFed
       => /\ rp.lines_expected = Some(int(strip(fed_line[1])))
          /\ rp.state = IF int(strip(fed_line[1])) = 0 THEN "END" ELSE "LINES"
          /\ feed_exc = NoExc
    /\ (rp.state = "LINES" /\ Declared) => Len(rp.data) < rp.lines_expected[1]
    /\ (rp.state \in {"END", "DONE"} /\ Declared)
       => Len(rp.data) = rp.lines_expected[1]
    /\ (fed_line # None /\ strip(fed_line[1]) = END /\ rp_before.state = "END")
       => feed_exc = NoExc /\ rp.state = "DONE" /\ is_completed(rp)

\* C10 as claimed: for a declared count N >= 0 the count line leads to
\* AWAIT_FRAME_END when N = 0 and to COLLECTING_LINES otherwise; in
\* COLLECTING_LINES each fed line is appended to data, and the parser is in
\* AWAIT_FRAME_END exactly when N lines are collected; on DONE data has N
\* lines, and DATA, 0, END completes with data = [] and no error.
C10_EachLineAppended ==
    /\ C10_CountLogic
    /\ (fed_line # None /\ rp_before.state = "LINES" /\ Declared)
       => rp.data = Append(rp_before.data, fed_line[1])

\* C10 as amended: the same, where in COLLECTING_LINES each fed line that is
\* not empty or whitespace only is appended to data with its surrounding
\* whitespace removed.
C10_EachNonBlankLineAppended ==
    /\ C10_CountLogic
    /\ (/\ fed_line # None
        /\ rp_before.state = "LINES"
        /\ Declared
        /\ NonBlank(fed_line[1]))
       => /\ rp.data = Append(rp_before.data, strip(fed_line[1]))
          /\ feed_exc = NoExc

\* the second of two declared lines has just been collected
C10_Witness ==
    /\ fed_line # None
    /\ rp_before.state = "LINES"
    /\ rp.state = "END"
    /\ rp.lines_expected = Some(2)
    /\ Len(rp.data) = 2

----------------------------------------------------------------------------
(* Claims about the command session (Spec) *)

\* a call has ended (it returned or raised) and no other has begun
Finished == pc = "idle" /\ outcome.kind # "none"

\* the call returned a payload or raised the server error
Completed == Finished /\ outcome.kind \in {"return", "LircServerException"}

\* what a call is to end with when the reply to its command is the answer a
DataOf(a) == StripAll(BlockLines(a))
Expected(a) ==
    IF a.ok
    THEN [kind |-> "return", value |-> DataOf(a)]
    ELSE [kind |-> "LircServerException", value |-> join(DataOf(a))]

\* C2: while the server answers each command with a well-formed reply, a
\* call ends with the DATA lines of the reply to its own command (returned,
\* or joined in the server error when that reply says ERROR), and with
\* nothing that an earlier call has left in the parser.
C2_CallReturnsOwnReply ==
    (Finished /\ well_served) => outcome = Expected(reply[1])

C5_ReturnsAfterOwnEnd ==
    well_served
    => /\ Completed => unconsumed = <<>>
       /\ Len(unconsumed) <= 1

\* C6: once recv has returned no bytes the call has ended, and it has ended
\* with an error: it does not go on reading and it returns no payload.
C6_ClosedTransportEndsCall ==
    zero_recvs > 0 => (Finished /\ outcome.kind # "return")

\* C7: a call that follows a call aborted by a protocol error, and whose own
\* reply is well-formed and arrives in time, ends with the payload of that
\* reply.
C7_NextCallAfterProtocolError ==
    (/\ Finished
     /\ prev_kind = "BadPacketException"
     /\ reply # None
     /\ reply[1].good
     /\ outcome.kind # "timeout")
    => outcome = Expected(reply[1])

\* C8: a call that a receive timeout has ended leaves the line buffer empty,
\* and the call after it starts in AWAIT_BEGIN with an empty payload.
C8_TimeoutDiscardsPartialState ==
    /\ (Finished /\ outcome.kind = "timeout") => in_buffer = <<>>
    /\ (pc = "loop" /\ prev_kind = "timeout" /\ call_fed = 0)
       => (parser.state = "BEGIN" /\ parser.data = <<>>)

----------------------------------------------------------------------------
(* Claims about the states of the parser (Spec, SpecFeed) *)

\* C17: is_completed is true exactly when the state of the parser is DONE;
\* result is OK exactly in DONE and never FAIL; and while the parser of a
\* session is completed, _send_command takes no line from its buffer, reads
\* nothing into it and feeds nothing.
C17_CompletedIffDone ==
    /\ [](/\ is_completed(parser) <=> parser.state = "DONE"
          /\ parser.result = "OK" <=> parser.state = "DONE"
          /\ parser.result # "FAIL")
    /\ [][(pc = "loop" /\ is_completed(parser))
            => (in_buffer' = in_buffer /\ parser' = parser /\ call_fed' = call_fed)]_vars

C17_Witness == pc = "loop" /\ parser.state = "DONE" /\ call_fed > 0 /\ sock_in = <<>>

\* str.lower(), for the command of the model
lower(s) == [i \in 1..Len(s) |-> IF s[i] = "LIST" THEN "list" ELSE s[i]]

\* C18: in AWAIT_ECHO a line that equals the command sent, ignoring case,
\* moves the parser to AWAIT_RESULT, and any other non-empty line moves it
\* back to AWAIT_BEGIN.
C18_EchoMustMatch ==
    (fed_line # None /\ rp_before.state = "COMMAND" /\ NonBlank(fed_line[1]))
    => /\ feed_exc = NoExc
       /\ rp.state = IF lower(strip(fed_line[1])) = lower(input.cmd)
                     THEN "RESULT" ELSE "BEGIN"

\* C19 as claimed: in AWAIT_BEGIN the line BEGIN moves the parser to
\* AWAIT_ECHO, and any other non-empty line makes feed raise.
C19_OtherLineRaises ==
    (fed_line # None /\ rp_before.state = "BEGIN" /\ fed_line[1] # <<>>)
    => IF fed_line[1] = BEGIN
       THEN feed_exc = NoExc /\ rp.state = "COMMAND"
       ELSE feed_exc # NoExc

\* C19, amended: in AWAIT_BEGIN the line BEGIN (whitespace around it
\* aside) moves the parser to AWAIT_ECHO; any other line is passed over:
\* feed raises nothing and the parser stays as it was in AWAIT_BEGIN, but
\* for last_line, which takes a line that is not whitespace only.
C19_OtherLinePassedOver ==
    (fed_line # None /\ rp_before.state = "BEGIN")
    => /\ feed_exc = NoExc
       /\ rp = IF strip(fed_line[1]) = BEGIN
               THEN [rp_before EXCEPT !.state = "COMMAND", !.last_line = BEGIN]
               ELSE IF NonBlank(fed_line[1])
               THEN [rp_before EXCEPT !.last_line = strip(fed_line[1])]
               ELSE rp_before

C19_Witness ==
    /\ fed_line = Some(END)
    /\ rp_before.state = "BEGIN"
    /\ rp.state = "BEGIN"
    /\ feed_exc = NoExc

\* C21: in AWAIT_RESULT the line SIGHUP sets sighup and moves the parser to
\* AWAIT_SIGHUP_END, success and data staying as they were; in
\* AWAIT_SIGHUP_END the line END moves it to AWAIT_BEGIN, not to DONE, and
\* is_completed stays false.
C21_SighupFrameTransitions ==
    /\ (fed_line # None /\ rp_before.state = "RESULT" /\ strip(fed_line[1]) = SIGHUP)
       => /\ feed_exc = NoExc
          /\ rp = [rp_before EXCEPT !.state = "SIGHUP_END", !.sighup = TRUE,
                                    !.last_line = SIGHUP]
    /\ (fed_line # None /\ rp_before.state = "SIGHUP_END" /\ strip(fed_line[1]) = END)
       => /\ feed_exc = NoExc
          /\ rp = [rp_before EXCEPT !.state = "BEGIN", !.last_line = END]
          /\ ~is_completed(rp)

C21_Witness ==
    /\ fed_line = Some(END)
    /\ rp_before.state = "SIGHUP_END"
    /\ rp.state = "BEGIN"
    /\ rp.sighup
    /\ ~is_completed(rp)

\* C23: feed with a line that is empty or whitespace only changes nothing
\* of the parser, in any state, and raises nothing; in a DATA block the
\* line is not appended and not counted.
C23_BlankLineIsNoOp ==
    (fed_line # None /\ strip(fed_line[1]) = <<>>)
    => (rp = rp_before /\ feed_exc = NoExc)

C23_Witness ==
    /\ fed_line = Some(<<" ">>)
    /\ rp_before.state = "LINES"
    /\ rp_before.lines_expected = Some(2)
    /\ Len(rp_before.data) = 1
    /\ rp = rp_before
    /\ feed_exc = NoExc

\* C28: whenever is_completed is true, success is True or False, not None.
C28_CompletedHasSuccess == is_completed(rp) => rp.success \in {Some(TRUE), Some(FALSE)}

C28_Witness == is_completed(rp) /\ rp.success = Some(FALSE) /\ rp.state = "DONE"

\* C29: when feed raises, state, success, data, sighup, lines_expected and
\* result are as before the call; only last_line is changed, to the line
\* that was fed (as feed takes it, without the whitespace around it), which
\* is also the line the exception carries.
C29_RaiseKeepsAllButStrippedLastLine ==
    (fed_line # None /\ feed_exc # NoExc)
    => /\ rp = [rp_before EXCEPT !.last_line = strip(fed_line[1])]
       /\ feed_exc.line = strip(fed_line[1])

C29_Witness ==
    /\ feed_exc.type = "BadPacketException"
    /\ rp_before.state = "LINE_COUNT"
    /\ rp.state = "LINE_COUNT"
    /\ rp.last_line = <<"tv">>
    /\ rp_before.last_line = DATA

----------------------------------------------------------------------------
(* Claims about _read_line (SpecRead) *)

\* the lines of a byte stream that are ended by a newline, in order; cur is
\* the part of the current line passed so far
RECURSIVE EndedLines(_, _)
EndedLines(bytes, cur) ==
    IF bytes = <<>> THEN <<>>
    ELSE IF Head(bytes) = newline THEN <<cur>> \o EndedLines(Tail(bytes), <<>>)
    ELSE EndedLines(Tail(bytes), Append(cur, Head(bytes)))

\* C22: however recv cuts the stream into chunks, the lines _read_line has
\* returned are the first lines of the stream, in order, each whole and
\* without a newline, and the lines returned, each with its newline,
\* followed by the buffer are the bytes received so far.
C22_LinesWholeAndInOrder ==
    /\ Wire(returned) \o in_buffer = received
    /\ \A i \in 1..Len(returned) : ~Contains(returned[i], newline)
    /\ Len(returned) <= Len(EndedLines(received \o sock_in, <<>>))
    /\ returned = SubSeq(EndedLines(received \o sock_in, <<>>), 1, Len(returned))

C22_Witness ==
    /\ returned = <<(<<"a">>), (<<>>)>>
    /\ in_buffer = <<"a">>
    /\ received = <<"a", newline, newline, "a">>

----------------------------------------------------------------------------
(* Claims about the operations of a session (SpecApi) *)

\* the last operation was op, called on a session that had not been closed
Did(op) == api.op = op /\ ~api.closed

\* the one packet of the given text was written
SentOnly(text) == sent = <<text \o <<newline>>>>

\* C11: stop_ir called when a field has neither an explicit argument nor a
\* value recorded by send_ir_command_repeat (so also stop_ir() on a session
\* that never started a repeat) fails with an argument error, the TypeError
\* of the concatenation, and writes nothing to the socket.
C11_StopWithoutValueFails ==
    (api.op = "stop_ir" /\ last_start = None
        /\ (api.args[1] = None \/ api.args[2] = None))
    => (ret.kind = "TypeError" /\ sent = <<>>)

C11_Witness ==
    /\ api.op = "stop_ir"
    /\ api.args = <<None, None>>
    /\ last_start = None
    /\ ~api.closed
    /\ ret.kind = "TypeError"

\* the value stop_ir is claimed to send for field i: the argument if one is
\* given, else what the last send_ir_command_repeat recorded
AsClaimed(i) == IF api.args[i] # None THEN api.args[i][1] ELSE last_start[1][i]

\* the same, with an empty argument counted as left out
AsSent(i) == IF Truthy(api.args[i]) THEN api.args[i][1] ELSE last_start[1][i]

\* C12 as claimed: after a send_ir_command_repeat, stop_ir sends SEND_STOP <remote> <command> where each
\* argument left out is replaced by the field recorded by the most recent
\* send_ir_command_repeat and each argument given is sent as given.
C12_GivenArgumentsSentAsGiven ==
    (Did("stop_ir") /\ last_start # None)
    => SentOnly(<<"SEND_STOP", " ">> \o AsClaimed(1) \o <<" ">> \o AsClaimed(2))

\* C12, amended: stop_ir sends SEND_STOP <remote> <command> where each
\* argument left out or empty is replaced by the field recorded by the most
\* recent send_ir_command_repeat and each non-empty argument is sent as given.
C12_NonEmptyArgumentsSentAsGiven ==
    (Did("stop_ir") /\ \A i \in 1..2 : Truthy(api.args[i]) \/ last_start # None)
    => SentOnly(<<"SEND_STOP", " ">> \o AsSent(1) \o <<" ">> \o AsSent(2))

C12_Witness ==
    /\ Did("stop_ir")
    /\ api.args = <<None, Some(<<"play">>)>>
    /\ last_start = Some(<<(<<"amp">>), (<<"mute">>)>>)
    /\ ops = 3
    /\ SentOnly(<<"SEND_STOP", " ", "amp", " ", "play">>)

\* C13: the socket of a session is connected or closed; an operation built
\* on _send_command (any but close and set_verbose) called
\* after close() fails with an error (OSError from the closed socket, or the
\* TypeError of stop_ir), writes nothing and returns nothing, so an
\* operation returns only on a session that has not been closed.
C13_ClosedSessionFails ==
    /\ socket \in {"connected", "closed"}
    /\ (api.closed /\ api.op \notin {"none", "close", "set_verbose"})
       => (ret.kind \in {"OSError", "TypeError"} /\ sent = <<>>)

C13_Witness ==
    /\ api.closed
    /\ api.op = "get_remotes"
    /\ ret.kind = "OSError"
    /\ sent = <<>>

\* bit i of the number m
Bit(m, i) == (m \div (2 ^ i)) % 2

\* C14: set_transmitters writes exactly one packet, SET_TRANSMITTERS <mask>,
\* where bit i - 1 of mask is set exactly for the numbers i in the list.
C14_MaskHasRequestedBits ==
    Did("set_transmitters")
    => \E m \in 0..(2 ^ (MaxTransmitter + 1)) :
          /\ SentOnly(<<"SET_TRANSMITTERS", " ">> \o str(m))
          /\ \A i \in 1..(MaxTransmitter + 1) :
                Bit(m, i - 1) = 1
                    <=> \E k \in 1..Len(api.args[1]) : api.args[1][k] = <<DigitOf(i)>>

C14_Witness ==
    /\ Did("set_transmitters")
    /\ api.args[1] = <<(<<"1">>), (<<"3">>)>>
    /\ SentOnly(<<"SET_TRANSMITTERS", " ", "5">>)

\* C15: send_ir_command with a count writes exactly the packet
\* SEND_ONCE <remote> <command> <count - 1>.
C15_SendOnceCountMinusOne ==
    Did("send_ir_command")
    => SentOnly(<<"SEND_ONCE", " ">> \o api.args[1] \o <<" ">> \o api.args[2]
                    \o <<" ", DigitOf(api.args[3] - 1)>>)

C15_Witness ==
    /\ Did("send_ir_command")
    /\ api.args[3] = 1
    /\ SentOnly(<<"SEND_ONCE", " ", "tv", " ", "power", " ", "0">>)

\* the name in a line of the reply to LIST <remote>: its last word
RECURSIVE Names(_)
Names(lines) ==
    IF lines = <<>> THEN <<>>
    ELSE <<(<<Head(lines)[Len(Head(lines))]>>)>> \o Names(Tail(lines))

\* the DATA lines of the server's answer to the last operation
AnswerData == IF answer[1].d = None THEN <<>> ELSE answer[1].d[1]

\* C16: get_commands returns, in order, the DATA lines of the reply to its
\* LIST <remote>: without their codes and the spaces after them unless
\* include_codes is set, unchanged if it is.  (Every command of the session
\* has had a well-formed reply.)
C16_ReturnsCommandsOfOwnReply ==
    (Did("get_commands") /\ well_served /\ ret.kind = "return")
    => ret.value = IF api.args[2] THEN AnswerData ELSE Names(AnswerData)

\* C20 as claimed: in AWAIT_RESULT, AWAIT_DATA, AWAIT_FRAME_END and
\* AWAIT_SIGHUP_END a non-empty line other than the tokens accepted there
\* makes feed raise BadPacketException with the line and the state, and the
\* call ends with that exception.
Accepted(state) ==
    CASE state = "RESULT" -> {SUCCESS, ERROR, SIGHUP}
      [] state = "DATA" -> {END, DATA}
      [] state = "END" -> {END}
      [] state = "SIGHUP_END" -> {END}

\* the first call of a new session got an answer with a line put at a state
StrayServed == Did("get_remotes") /\ api.fresh /\ answer # None /\ answer[1].at # "none"

C20_OtherLinesRaise ==
    (StrayServed /\ answer[1].bad # <<>> /\ answer[1].bad \notin Accepted(answer[1].at))
    => /\ raised.type = "BadPacketException"
       /\ strip(raised.line) = strip(answer[1].bad)
       /\ raised.state = answer[1].at
       /\ ret.kind = "BadPacketException"

\* C20, amended: in those states a line that, with the whitespace around it
\* removed, is not empty and is none of the tokens accepted there makes feed
\* raise BadPacketException with the stripped line and the state, and the
\* call ends with that exception; a line of whitespace only is skipped.
C20_OtherStrippedLinesRaise ==
    /\ (StrayServed /\ strip(answer[1].bad) # <<>>
            /\ strip(answer[1].bad) \notin Accepted(answer[1].at))
       => /\ raised = [type |-> "BadPacketException",
                       line |-> strip(answer[1].bad), state |-> answer[1].at]
          /\ ret.kind = "BadPacketException"
    /\ (StrayServed /\ strip(answer[1].bad) = <<>>) => raised = NoExc

C20_Witness ==
    /\ StrayServed
    /\ answer[1].at = "END"
    /\ answer[1].bad = <<"end">>
    /\ raised.state = "END"
    /\ ret = [kind |-> "BadPacketException", value |-> <<"end">>]

\* _last_remote and _last_command
Pending == <<last_remote, last_command>>

\* C24: send_ir_command_repeat writes SEND_START <remote> <command> and sets
\* the Pending Repeat to its arguments; every other operation leaves the
\* Pending Repeat as it was; so the Pending Repeat is always the arguments of
\* the most recent send_ir_command_repeat, or unset if there was none.
C24_PendingIsLastStart ==
    /\ [](Did("send_ir_command_repeat")
            => SentOnly(<<"SEND_START", " ">> \o api.args[1] \o <<" ">> \o api.args[2]))
    /\ [][ops' # ops =>
            Pending' = IF api'.op = "send_ir_command_repeat"
                       THEN <<Some(api'.args[1]), Some(api'.args[2])>>
                       ELSE Pending]_vars
    /\ [](Pending = IF last_start = None THEN <<None, None>>
                    ELSE <<Some(last_start[1][1]), Some(last_start[1][2])>>)

C24_Witness ==
    /\ ops = 3
    /\ Did("get_version")
    /\ ret.kind = "return"
    /\ last_start = Some(<<(<<"amp">>), (<<"mute">>)>>)
    /\ Pending = <<Some(<<"amp">>), Some(<<"mute">>)>>

\* C25: an operation run by a verbose session and the same operation run from
\* the same state, with the same bytes to come, by a session that is not
\* verbose write the same bytes, feed the same lines in the same order, end
\* with the same value or the same error, and leave the same parser and
\* buffer.
C25_VerbosityKeepsControlFlow ==
    twin # None =>
        twin[1] = [sent |-> sent, fed |-> fed, ret |-> ret, parser |-> parser,
                   in_buffer |-> in_buffer]

C25_Witness ==
    /\ verbose
    /\ twin # None
    /\ Did("get_remotes")
    /\ ret = [kind |-> "return", value |-> <<(<<"tv">>)>>]
    /\ Len(fed) = 7
    /\ Len(stdout) = 8

\* the ways a request fails after its packet is written
FailedKinds == {"LircServerException", "BadPacketException", "timeout"}

\* C30: after send_ir_command_repeat the Pending Repeat is the pair of its
\* arguments however the request ended, also when it ended in a server
\* error, a protocol error or a timeout; stop_ir() without arguments after
\* such a failed start writes SEND_STOP with the pair of the failed start.
C30_FailedStartIsPending ==
    /\ api.op = "send_ir_command_repeat"
       => Pending = <<Some(api.args[1]), Some(api.args[2])>>
    /\ (Did("stop_ir") /\ api.args = <<None, None>> /\ start_kind \in FailedKinds)
       => SentOnly(<<"SEND_STOP", " ">> \o last_start[1][1] \o <<" ">> \o last_start[1][2])

C30_Witness ==
    /\ Did("stop_ir")
    /\ api.args = <<None, None>>
    /\ start_kind = "timeout"
    /\ last_start = Some(<<(<<"amp">>), (<<"mute">>)>>)
    /\ SentOnly(<<"SEND_STOP", " ", "amp", " ", "mute">>)

----------------------------------------------------------------------------
(* Claims about the client of LircClient.py (SpecLegacy) *)

\* C26: set_transmitters of the legacy client, given a list of transmitter
\* numbers, returns having written exactly one packet, SET_TRANSMITTERS
\* <mask>, the packet that set_transmitters of lirc_client.py writes for the
\* same list.
C26_LegacySetTransmittersSendsMask ==
    api.op = "set_transmitters"
        => /\ ret.kind = "return"
           /\ SentOnly(set_transmitters_mask_packet(mask(api.args[1])))

\* the lines of the last answer are a well-formed reply to the packet: the
\* grammar of a reply with the packet for its echo, no line empty or with
\* whitespace around it
WellFormed ==
    /\ answer # None
    /\ answer[1].good
    /\ \A i \in 1..Len(answer[1].lines) :
          answer[1].lines[i] # <<>> /\ strip(answer[1].lines[i]) = answer[1].lines[i]

\* C27: when a legacy session with nothing left to read gets a well-formed
\* reply, send_command ends as _send_command of lirc_client.py ends on a new
\* session that reads the same reply: both return the same DATA lines, or
\* both raise the server error with the same message.
C27_LegacyAgreesOnWellFormed ==
    (twin # None /\ api.fresh /\ WellFormed)
        => /\ outcome = twin[1]
           /\ outcome.kind \in {"return", "LircServerException"}

C27_Witness ==
    /\ twin # None /\ api.fresh /\ WellFormed
    /\ api.op = "get_commands"
    /\ outcome = [kind |-> "LircServerException", value |-> <<"tv", "amp">>]
    /\ twin[1] = outcome

====
